---- MODULE Spec2Model ----
(***************************************************************************)
(* A model of the forward pipeline of compress.py: colour transform,       *)
(* chroma down-sampling, block DCT and quantisation, zigzag + run-length   *)
(* encoding and the write of the encoded image.                            *)
(*                                                                         *)
(* Floating point values are carried as fixed-point integers: a float of   *)
(* value x is the integer x * Unit.  8 bit pixel components are integers   *)
(* in 0..255, stored through Uint8.                                        *)
(***************************************************************************)
EXTENDS Integers, Sequences, FiniteSets, TLC

VARIABLES pc, input_file, cbcr_downsize_rate, QL_rate, QC_rate,
          original_img, YCbCr_downsampled, quantised_dct_img, encoded_img,
          artifact, handle, raised

vars == <<pc, input_file, cbcr_downsize_rate, QL_rate, QC_rate,
          original_img, YCbCr_downsampled, quantised_dct_img, encoded_img,
          artifact, handle, raised>>

(***************************************************************************)
(* Bounds of the model.                                                    *)
(***************************************************************************)
MaxDim == 17
MaxFactor == 2
MaxRate == 1
MaxGrid == 2

(***************************************************************************)
(* Program constants.                                                      *)
(***************************************************************************)
BlockSize == 8
\* A transform that does not centre the samples around zero.
NoLevelShift == 128 - 128
LevelShift == 128
CosScale == 1000
Unit == CosScale * CosScale

(***************************************************************************)
(* Arithmetic helpers.                                                     *)
(***************************************************************************)
\* Division truncating toward zero (numpy.trunc of a quotient, Python int()).
TruncDiv(a, b) ==
    IF (a >= 0) = (b > 0) THEN (IF a >= 0 THEN a ELSE -a) \div (IF b > 0 THEN b ELSE -b)
    ELSE -((IF a >= 0 THEN a ELSE -a) \div (IF b > 0 THEN b ELSE -b))

\* Storing a number into an 8 bit unsigned array element keeps its low 8 bits.
Uint8(x) == x % 256

Height(m) == Len(m)
Width(m) == IF Len(m) = 0 THEN 0 ELSE Len(m[1])

(***************************************************************************)
(* Input images.  An image is a sequence of rows of <<c0, c1, c2>> pixels. *)
(***************************************************************************)
Shapes == {<<4, 4>>, <<8, 8>>, <<9, MaxDim>>, <<16, 16>>, <<MaxDim, 8>>}
Patterns == {"gray", "checker", "ramp", "bands"}

Pixel(pattern, i, j) ==
    CASE pattern = "gray" -> <<128, 128, 128>>
      [] pattern = "checker" ->
            IF (i + j) % 2 = 0 THEN <<255, 0, 0>> ELSE <<0, 255, 255>>
      [] pattern = "ramp" ->
            <<(40 * i) % 256, (24 * j + 7) % 256, (8 * (i + j)) % 256>>
      [] OTHER ->
            IF (i \div 2) % 2 = 0 THEN <<255, 255, 255>> ELSE <<0, 0, 255>>

Image(shape, pattern) ==
    [i \in 1..shape[1] |-> [j \in 1..shape[2] |-> Pixel(pattern, i, j)]]

(***************************************************************************)
(* rgb_to_ycbcr.  The three formulas, in thousandths (Y) and millionths    *)
(* (Cb, Cr).  The float64 sum for Y can land one ulp below an integral     *)
(* exact value (0.299*128 + 0.587*128 + 0.114*128 evaluates to             *)
(* 127.99999999999999); `low` says whether it does for this pixel.  A sum  *)
(* of non-negative products is never below zero.  For Cb and Cr the float  *)
(* result truncates as the exact one does for every 8 bit input.           *)
(***************************************************************************)
LumaExact(p) == 299 * p[1] + 587 * p[2] + 114 * p[3]
LumaIntegral(p) == LumaExact(p) % 1000 = 0 /\ LumaExact(p) > 0

YFormula(p, low) == IF low /\ LumaIntegral(p) THEN LumaExact(p) - 1 ELSE LumaExact(p)
\* The Cb formula with an offset one too large.
CbFormulaOffset(p) == (0 - 168736 * p[1] - 331264 * p[2] + 500000 * p[3]) + 129000000

CbFormula(p) == (0 - 168736 * p[1] - 331264 * p[2] + 500000 * p[3]) + 128000000
CrFormula(p) == (500000 * p[1] - 418688 * p[2] - 81312 * p[3]) + 128000000

ConvertPixel(p, low) ==
    <<Uint8(TruncDiv(YFormula(p, low), 1000)),
      Uint8(TruncDiv(CbFormula(p), 1000000)),
      Uint8(TruncDiv(CrFormula(p), 1000000))>>

Colours(img) == {img[i][j] : i \in 1..Height(img), j \in 1..Width(img)}

\* The arguments of compress and the image stored at input_filename (<<>>
\* when the file is missing or unreadable).
Init ==
    /\ pc = "start"
    /\ input_file \in {<<>>} \cup {Image(shape, pattern) : shape \in Shapes, pattern \in Patterns}
    /\ cbcr_downsize_rate \in 0..MaxFactor
    /\ QL_rate \in -1..MaxRate
    /\ QC_rate \in -1..MaxRate
    /\ original_img = <<>>
    /\ YCbCr_downsampled = <<>>
    /\ quantised_dct_img = <<>>
    /\ encoded_img = <<>>
    /\ artifact = "absent"
    /\ handle = "none"
    /\ raised = "none"

\* compress, lines 158-164: cv2.imread gives the pixel grid, or None for a
\* missing or unreadable file, on which cv2.resize raises.
load_image ==
    /\ pc = "start"
    /\ IF input_file = <<>>
       THEN /\ original_img' = original_img
            /\ pc' = "failed"
            /\ raised' = "cv2.error"
       ELSE /\ original_img' = input_file
            /\ pc' = "loaded"
            /\ raised' = raised
    /\ UNCHANGED <<input_file, cbcr_downsize_rate, QL_rate, QC_rate,
                   YCbCr_downsampled, quantised_dct_img, encoded_img,
                   artifact, handle>>

rgb_to_ycbcr ==
    /\ pc = "loaded"
    /\ \E lows \in SUBSET {c \in Colours(original_img) : LumaIntegral(c)} :
          original_img' =
             [i \in 1..Height(original_img) |->
                [j \in 1..Width(original_img) |->
                   ConvertPixel(original_img[i][j], original_img[i][j] \in lows)]]
    /\ pc' = "converted"
    /\ UNCHANGED <<input_file, cbcr_downsize_rate, QL_rate, QC_rate, YCbCr_downsampled,
                   quantised_dct_img, encoded_img, artifact, handle, raised>>

(***************************************************************************)
(* down_sample_cbcr.  A plane is a record of its shape and its samples,    *)
(* as a numpy array carries both (a plane of zero rows keeps its width).   *)
(* The samples of a plane are whole numbers until the DCT.                 *)
(***************************************************************************)
Plane(h, w, f) == [rows |-> h, cols |-> w, at |-> f]

Channel(img, c) ==
    Plane(Height(img), Width(img),
          [i \in 1..Height(img) |-> [j \in 1..Width(img) |-> img[i][j][c]]])

\* cv2.boxFilter's default border, BORDER_REFLECT_101, on a 0-based index.
Reflect101(k, n) == IF k < 0 THEN 0 - k ELSE IF k >= n THEN 2 * n - 2 - k ELSE k

\* Rounding to nearest, ties to even, of n / d for n >= 0 (cvRound).
RoundHalfEven(n, d) ==
    LET q == n \div d
        r == n % d
    IN  IF 2 * r > d \/ (2 * r = d /\ q % 2 = 1) THEN q + 1 ELSE q

\* cv2.boxFilter(plane, ddepth=-1, ksize=(k, k)): the mean of the k x k window
\* anchored at its centre k \div 2, stored as 8 bit unsigned.
BoxFilter(p, k) ==
    LET a == k \div 2
        cell(i, j, di, dj) ==
            p.at[Reflect101(i - 1 - a + di, p.rows) + 1]
                [Reflect101(j - 1 - a + dj, p.cols) + 1]
        total(i, j) ==
            LET RECURSIVE acc(_)
                acc(n) == IF n = 0 THEN 0
                          ELSE cell(i, j, (n - 1) \div k, (n - 1) % k) + acc(n - 1)
            IN  acc(k * k)
    IN  Plane(p.rows, p.cols,
              [i \in 1..p.rows |-> [j \in 1..p.cols |->
                  Uint8(RoundHalfEven(total(i, j), k * k))]])

\* A decimation that keeps one element per whole stretch of step elements.
DecimateWholeSteps(seq, step) ==
    [n \in 1..(Len(seq) \div step) |-> seq[(n - 1) * step + 1]]

\* seq[::step]: the elements whose 0-based index is a multiple of step.
Decimate(seq, step) ==
    LET kept == {i \in 1..Len(seq) : (i - 1) % step = 0}
    IN  [n \in 1..Cardinality(kept) |-> seq[(n - 1) * step + 1]]

\* plane[::step, ::step]
DownSize(p, step) ==
    LET rws == Decimate(p.at, step)
        out == [i \in 1..Len(rws) |-> Decimate(rws[i], step)]
    IN  Plane(Len(out), IF Len(out) = 0 THEN 0 ELSE Len(out[1]), out)

DownSampled(img, sample_factor) ==
    IF sample_factor > 1
    THEN <<Channel(img, 1),
           DownSize(BoxFilter(Channel(img, 2), sample_factor), sample_factor),
           DownSize(BoxFilter(Channel(img, 3), sample_factor), sample_factor)>>
    ELSE <<Channel(img, 1), Channel(img, 2), Channel(img, 3)>>

down_sample_cbcr ==
    /\ pc = "converted"
    /\ YCbCr_downsampled' = DownSampled(original_img, cbcr_downsize_rate)
    /\ pc' = "sampled"
    /\ UNCHANGED <<input_file, cbcr_downsize_rate, QL_rate, QC_rate, original_img,
                   quantised_dct_img, encoded_img, artifact, handle, raised>>

(***************************************************************************)
(* dct_and_quantise_img.                                                   *)
(***************************************************************************)
\* JRpeg_util.Qlum and JRpeg_util.Qchrom: the reference quantisation tables.
Qlum ==
    << <<16, 11, 10, 16, 24, 40, 51, 61>>,
       <<12, 12, 14, 19, 26, 58, 60, 55>>,
       <<14, 13, 16, 24, 40, 57, 69, 56>>,
       <<14, 17, 22, 29, 51, 87, 80, 62>>,
       <<18, 22, 37, 56, 68, 109, 103, 77>>,
       <<24, 35, 55, 64, 81, 104, 113, 92>>,
       <<49, 64, 78, 87, 103, 121, 120, 101>>,
       <<72, 92, 95, 98, 112, 100, 103, 99>> >>

Qchrom ==
    << <<17, 18, 24, 47, 99, 99, 99, 99>>,
       <<18, 21, 26, 66, 99, 99, 99, 99>>,
       <<24, 26, 56, 99, 99, 99, 99, 99>>,
       <<47, 66, 99, 99, 99, 99, 99, 99>>,
       <<99, 99, 99, 99, 99, 99, 99, 99>>,
       <<99, 99, 99, 99, 99, 99, 99, 99>>,
       <<99, 99, 99, 99, 99, 99, 99, 99>>,
       <<99, 99, 99, 99, 99, 99, 99, 99>> >>

\* The orthonormal DCT-II basis of size 8, times CosScale: row k + 1, column
\* n + 1 is c(k) * cos((2n + 1) * k * pi / 16), c(0) = sqrt(1/8), c(k) = 1/2.
CosTable ==
    << <<354, 354, 354, 354, 354, 354, 354, 354>>,
       <<490, 416, 278, 98, -98, -278, -416, -490>>,
       <<462, 191, -191, -462, -462, -191, 191, 462>>,
       <<416, -98, -490, -278, 278, 490, 98, -416>>,
       <<354, -354, -354, 354, 354, -354, -354, 354>>,
       <<278, -490, 98, 416, -416, -98, 490, -278>>,
       <<191, -462, 462, -191, -191, 462, -462, 191>>,
       <<98, -278, 416, -490, 490, -416, 278, -98>> >>

\* The plane cropped to multiples of 8 (lines 78-80).
Crop(p) ==
    IF (p.rows % BlockSize) > 0 \/ (p.cols % BlockSize) > 0
    THEN LET h == p.rows - (p.rows % BlockSize)
             w == p.cols - (p.cols % BlockSize)
         IN  Plane(h, w, [i \in 1..h |-> [j \in 1..w |-> p.at[i][j]]])
    ELSE p

\* The 8 x 8 block at block position (bi, bj) of a plane, 1-based
\* (skimage.util.view_as_blocks).
BlockAt(p, bi, bj) ==
    [x \in 1..BlockSize |-> [y \in 1..BlockSize |->
        p.at[(bi - 1) * BlockSize + x][(bj - 1) * BlockSize + y]]]

\* cv2.dct(float32(block) - 128): C * f * C^T, in Unit = CosScale^2.
Dct(block) ==
    LET f(x, y) == block[x][y] - LevelShift
        col(u, y) ==
            CosTable[u][1] * f(1, y) + CosTable[u][2] * f(2, y)
          + CosTable[u][3] * f(3, y) + CosTable[u][4] * f(4, y)
          + CosTable[u][5] * f(5, y) + CosTable[u][6] * f(6, y)
          + CosTable[u][7] * f(7, y) + CosTable[u][8] * f(8, y)
        t == [u \in 1..BlockSize |-> [y \in 1..BlockSize |-> col(u, y)]]
    IN  [u \in 1..BlockSize |-> [v \in 1..BlockSize |->
            t[u][1] * CosTable[v][1] + t[u][2] * CosTable[v][2]
          + t[u][3] * CosTable[v][3] + t[u][4] * CosTable[v][4]
          + t[u][5] * CosTable[v][5] + t[u][6] * CosTable[v][6]
          + t[u][7] * CosTable[v][7] + t[u][8] * CosTable[v][8]]]

\* numpy.trunc(block / (Q * rate)), element-wise.
Quantise(block, Q, rate) ==
    [u \in 1..BlockSize |-> [v \in 1..BlockSize |->
        TruncDiv(block[u][v], Q[u][v] * rate * Unit) * Unit]]

\* A transform that quantises every channel with the luminance table and rate.
TransformBlockOneTable(block, ch, QL, QC) ==
    IF QL > 0 THEN Quantise(Dct(block), Qlum, QL) ELSE Dct(block)

\* Lines 94-103 for one block of channel ch (1 is Y).
TransformBlock(block, ch, QL, QC) ==
    IF ch = 1
    THEN IF QL > 0 THEN Quantise(Dct(block), Qlum, QL) ELSE Dct(block)
    ELSE IF QC > 0 THEN Quantise(Dct(block), Qchrom, QC) ELSE Dct(block)

Grid(bh, bw, f) == [block_height |-> bh, block_width |-> bw, block |-> f]

\* Lines 76-105 for one channel.
TransformPlane(p, ch, QL, QC) ==
    LET c == Crop(p)
        bh == c.rows \div BlockSize
        bw == c.cols \div BlockSize
    IN  Grid(bh, bw,
             [i \in 1..bh |-> [j \in 1..bw |->
                 TransformBlock(BlockAt(c, i, j), ch, QL, QC)]])

\* The list passed in is rebound channel by channel to the block grids;
\* YCbCr_downsampled keeps the planes as they were passed in.
dct_and_quantise_img ==
    /\ pc = "sampled"
    /\ quantised_dct_img' =
          [ch \in 1..3 |-> TransformPlane(YCbCr_downsampled[ch], ch, QL_rate, QC_rate)]
    /\ pc' = "quantised"
    /\ UNCHANGED <<input_file, cbcr_downsize_rate, QL_rate, QC_rate, original_img,
                   YCbCr_downsampled, encoded_img, artifact, handle, raised>>

(***************************************************************************)
(* encode_and_save_quantised_dct_img.  An entry of an encoded channel is   *)
(* <<value>> (a bare value) or <<num, value>> (a run): the two are told    *)
(* apart by their arity.                                                   *)
(***************************************************************************)
\* JRpeg_util.zigzag_block: the 64 coefficients of a block in zigzag order,
\* given here as the 1-based row-major positions visited.
ZigzagOrder ==
    <<1, 2, 9, 17, 10, 3, 4, 11, 18, 25, 33, 26, 19, 12, 5, 6,
      13, 20, 27, 34, 41, 49, 42, 35, 28, 21, 14, 7, 8, 15, 22, 29,
      36, 43, 50, 57, 58, 51, 44, 37, 30, 23, 16, 24, 31, 38, 45, 52,
      59, 60, 53, 46, 39, 32, 40, 47, 54, 61, 62, 55, 48, 56, 63, 64>>

zigzag_block(block) ==
    [z \in 1..Len(ZigzagOrder) |->
        block[((ZigzagOrder[z] - 1) \div BlockSize) + 1]
             [((ZigzagOrder[z] - 1) % BlockSize) + 1]]

\* Lines 119-124: the zigzag of every block, appended in row-major order.
RECURSIVE ZigzagUpTo(_, _)
ZigzagUpTo(g, n) ==
    IF n = 0 THEN <<>>
    ELSE ZigzagUpTo(g, n - 1)
           \o zigzag_block(g.block[((n - 1) \div g.block_width) + 1]
                                  [((n - 1) % g.block_width) + 1])

ZigzagAll(g) == ZigzagUpTo(g, g.block_height * g.block_width)

\* A coercion that rounds down instead of toward zero.
IntListFloor(s) == [k \in 1..Len(s) |-> s[k] \div Unit]

\* Line 128: list(map(int, ...)), int() of a float truncating toward zero.
IntList(s) == [k \in 1..Len(s) |-> TruncDiv(s[k], Unit)]

\* Line 130: [[len(list(group)), key] for key, group in groupby(s)].  The
\* scan of s from position i to position stop, acc holding the groups so far.
RECURSIVE GroupFrom(_, _, _, _)
GroupFrom(s, i, stop, acc) ==
    IF i > stop THEN acc
    ELSE IF Len(acc) > 0 /\ acc[Len(acc)][2] = s[i]
         THEN GroupFrom(s, i + 1, stop,
                        [acc EXCEPT ![Len(acc)] = <<acc[Len(acc)][1] + 1, s[i]>>])
         ELSE GroupFrom(s, i + 1, stop, Append(acc, <<1, s[i]>>))

\* The scan is carried out one stretch of 64 elements after the other.
RECURSIVE GroupUpTo(_, _)
GroupUpTo(s, n) ==
    IF n = 0 THEN <<>>
    ELSE LET from == ((n - 1) \div 64) * 64
         IN  GroupFrom(s, from + 1, n, GroupUpTo(s, from))

GroupBy(s) == GroupUpTo(s, Len(s))

\* An unpacking that leaves every [count, value] group as it is.
UnpackNothing(groups) == groups

\* Lines 133-138: an entry whose count is 1 is replaced by its value.
Unpack(groups) ==
    [x \in 1..Len(groups) |->
        IF groups[x][1] = 1 THEN <<groups[x][2]>> ELSE groups[x]]

\* Lines 117-141 for one channel.
EncodeChannel(g) ==
    Unpack(GroupBy(IntList(ZigzagAll(g)))) \o <<<<g.block_height>>, <<g.block_width>>>>

\* An encoding that appends the rates to every channel.
EncodedListRatesEverywhere(img_blocks, QL, QC) ==
    [ch \in 1..3 |-> EncodeChannel(img_blocks[ch]) \o <<<<QL>>, <<QC>>>>]

\* Lines 112-143: the three channels, the rates appended to the first.
EncodedList(img_blocks, QL, QC) ==
    [ch \in 1..3 |->
        IF ch = 1
        THEN EncodeChannel(img_blocks[ch]) \o <<<<QL>>, <<QC>>>>
        ELSE EncodeChannel(img_blocks[ch])]

\* Line 146, pickle.dump(encoded_list, open(filename, "wb")): open creates or
\* truncates the file, or raises; dump then writes, and may raise part-way.
\* The file object is never closed by the code: it is released when the
\* runtime collects it, at once or later.
encode_and_save_quantised_dct_img ==
    /\ pc = "quantised"
    /\ \/ /\ artifact' = artifact
          /\ handle' = handle
          /\ raised' = "OSError"
          /\ encoded_img' = encoded_img
          /\ pc' = "failed"
       \/ /\ artifact' = "partial"
          /\ handle' \in {"open", "closed"}
          /\ raised' = "OSError"
          /\ encoded_img' = encoded_img
          /\ pc' = "failed"
       \/ /\ artifact' = "complete"
          /\ handle' \in {"open", "closed"}
          /\ raised' = raised
          /\ encoded_img' = EncodedList(quantised_dct_img, QL_rate, QC_rate)
          /\ pc' = "encoded"
    /\ UNCHANGED <<input_file, cbcr_downsize_rate, QL_rate, QC_rate, original_img,
                   YCbCr_downsampled, quantised_dct_img>>

\* The runtime's collection of the unreferenced file object closes it.
release_handle ==
    /\ handle = "open"
    /\ handle' = "closed"
    /\ UNCHANGED <<pc, input_file, cbcr_downsize_rate, QL_rate, QC_rate, original_img,
                   YCbCr_downsampled, quantised_dct_img, encoded_img,
                   artifact, raised>>

\* compress, lines 183-187: the sizes are measured and returned.
compress_return ==
    /\ pc = "encoded"
    /\ pc' = "done"
    /\ UNCHANGED <<input_file, cbcr_downsize_rate, QL_rate, QC_rate, original_img,
                   YCbCr_downsampled, quantised_dct_img, encoded_img,
                   artifact, handle, raised>>

Next ==
    \/ load_image
    \/ rgb_to_ycbcr
    \/ down_sample_cbcr
    \/ dct_and_quantise_img
    \/ encode_and_save_quantised_dct_img
    \/ release_handle
    \/ compress_return

Spec == Init /\ [][Next]_vars

(***************************************************************************)
(* rgb_to_ycbcr on its own: one pixel of every combination of Levels.      *)
(***************************************************************************)
Levels == {0, 1, 127, 128, 254, 255}

InitPixel ==
    /\ pc = "loaded"
    /\ input_file \in {<<<<<<r, g, b>>>>>> : r \in Levels, g \in Levels, b \in Levels}
    /\ original_img = input_file
    /\ cbcr_downsize_rate = 1
    /\ QL_rate = 1
    /\ QC_rate = 1
    /\ YCbCr_downsampled = <<>>
    /\ quantised_dct_img = <<>>
    /\ encoded_img = <<>>
    /\ artifact = "absent"
    /\ handle = "none"
    /\ raised = "none"

NextPixel == rgb_to_ycbcr

SpecPixel == InitPixel /\ [][NextPixel]_vars

(***************************************************************************)
(* encode_and_save_quantised_dct_img on its own: block grids of 0 to       *)
(* MaxGrid blocks a side, their blocks drawn from BlockKinds.              *)
(***************************************************************************)
BlockKinds == {"zero", "distinct", "diagonal", "raw", "dc"}

BlockOf(kind) ==
    [u \in 1..BlockSize |-> [v \in 1..BlockSize |->
        CASE kind = "zero" -> 0
          [] kind = "distinct" -> (BlockSize * (u - 1) + v) * Unit
          [] kind = "diagonal" -> ((u + v) % 4) * Unit
          [] kind = "raw" -> (u - v) * 700000
          [] OTHER -> IF u = 1 /\ v = 1 THEN (0 - 3) * Unit ELSE 0]]

\* A grid whose blocks alternate between two kinds.
GridOf(bh, bw, k1, k2) ==
    Grid(bh, bw, [i \in 1..bh |-> [j \in 1..bw |->
                     BlockOf(IF (i + j) % 2 = 0 THEN k1 ELSE k2)]])

InitEncode ==
    /\ pc = "quantised"
    /\ input_file = <<>>
    /\ original_img = <<>>
    /\ YCbCr_downsampled = <<>>
    /\ cbcr_downsize_rate = 1
    /\ QL_rate \in 0..MaxRate
    /\ QC_rate \in -1..0
    /\ \E bh \in 0..MaxGrid, bw \in 0..MaxGrid, k1 \in BlockKinds, k2 \in BlockKinds :
          quantised_dct_img =
             <<GridOf(bh, bw, k1, k2),
               GridOf(IF bh > 1 THEN 1 ELSE bh, bw, k2, k1),
               GridOf(bh, IF bw > 1 THEN 1 ELSE bw, k2, k2)>>
    /\ encoded_img = <<>>
    /\ artifact = "absent"
    /\ handle = "none"
    /\ raised = "none"

NextEncode == encode_and_save_quantised_dct_img \/ release_handle

SpecEncode == InitEncode /\ [][NextEncode]_vars

(***************************************************************************)
(* Properties of the encoded structure.                                    *)
(***************************************************************************)
Returned == pc \in {"encoded", "done"}

\* The number of trailing metadata entries of channel ch.
MetaCount(ch) == IF ch = 1 THEN 4 ELSE 2

\* The entries of channel ch before its trailing metadata.
Entries(ch) == SubSeq(encoded_img[ch], 1, Len(encoded_img[ch]) - MetaCount(ch))

\* The n-th trailing metadata entry of channel ch.
Meta(ch, n) == encoded_img[ch][Len(encoded_img[ch]) - MetaCount(ch) + n]

\* The integer coefficients of a block grid: block by block in row-major
\* order, each block in zigzag order, each value truncated toward zero.
Coefficients(g) ==
    [k \in 1..(g.block_height * g.block_width * 64) |->
        LET b == (k - 1) \div 64
            z == ZigzagOrder[((k - 1) % 64) + 1] - 1
        IN  TruncDiv(g.block[(b \div g.block_width) + 1][(b % g.block_width) + 1]
                            [(z \div 8) + 1][(z % 8) + 1],
                     Unit)]

\* The expansion of entries lo..hi: a bare value as one coefficient, a
\* (run_length, value) pair as run_length copies of value.
RECURSIVE Expand(_, _, _)
Expand(es, lo, hi) ==
    IF lo > hi THEN <<>>
    ELSE IF lo = hi
         THEN IF Len(es[lo]) = 1 THEN es[lo]
              ELSE [n \in 1..es[lo][1] |-> es[lo][2]]
         ELSE Expand(es, lo, (lo + hi) \div 2) \o Expand(es, ((lo + hi) \div 2) + 1, hi)

Decoded(ch) == Expand(Entries(ch), 1, Len(Entries(ch)))

\* The number of maximal runs of consecutive equal values of a sequence.
RunCount(s) == Cardinality({k \in 1..Len(s) : k = 1 \/ s[k] # s[k - 1]})

EntryValue(e) == e[Len(e)]

\* C1: for every channel of the returned structure, expanding the entries
\* that precede the trailing metadata gives back the channel's zigzag-ordered
\* integer coefficients, and their number is block_height * block_width * 64
\* for the block_height and block_width stored in the metadata.
C1_RoundTrip ==
    Returned =>
        \A ch \in 1..3 :
            /\ Decoded(ch) = Coefficients(quantised_dct_img[ch])
            /\ Len(Decoded(ch)) = Meta(ch, 1)[1] * Meta(ch, 2)[1] * 64

C1_Witness ==
    /\ Returned
    /\ quantised_dct_img[1].block_height = 2
    /\ quantised_dct_img[1].block_width = 2
    /\ \E x \in 1..Len(Entries(1)) : Len(Entries(1)[x]) = 2
    /\ \E x \in 1..Len(Entries(1)) : Len(Entries(1)[x]) = 1
    /\ quantised_dct_img[1].block[1][1][1][2] = 0 - 700000

C10_RunLength ==
    Returned =>
        \A ch \in 1..3 :
            LET es == Entries(ch)
                cs == Coefficients(quantised_dct_img[ch])
            IN  /\ Len(es) = RunCount(cs)
                /\ \A x \in 1..Len(es) :
                      /\ Len(es[x]) \in {1, 2}
                      /\ Len(es[x]) = 2 => es[x][1] >= 2
                      /\ x > 1 => EntryValue(es[x]) # EntryValue(es[x - 1])
                /\ (Len(cs) = 64 /\ \A k \in 1..64 : cs[k] = 0)
                      => es = <<<<64, 0>>>>
                /\ (Len(cs) = 64 /\ \A k \in 1..64 : \A m \in 1..64 : cs[k] = cs[m] => k = m)
                      => (Len(es) = 64 /\ \A x \in 1..64 : es[x] = <<cs[x]>>)

C10_Witness ==
    /\ Returned
    /\ encoded_img[3] = <<<<64, 0>>, <<1>>, <<1>>>>
    /\ Len(encoded_img[1]) = 68
    /\ \A x \in 1..64 : Len(encoded_img[1][x]) = 1

(***************************************************************************)
(* Properties of the stages.                                               *)
(***************************************************************************)
Sampled == pc = "sampled"

ImageHeight == Height(original_img)
ImageWidth == Width(original_img)

CeilDiv(a, b) == (a + b - 1) \div b

\* C2 as stated: after down_sample_cbcr with sample_factor > 1 the Cb and Cr
\* planes have floor(height / sample_factor) rows and floor(width /
\* sample_factor) columns and Y keeps the image's dimensions; with
\* sample_factor = 1 the Cb and Cr planes have the dimensions of Y.
C2_FloorDims ==
    Sampled =>
        /\ YCbCr_downsampled[1].rows = ImageHeight
        /\ YCbCr_downsampled[1].cols = ImageWidth
        /\ \A ch \in 2..3 :
              /\ cbcr_downsize_rate > 1 =>
                    /\ YCbCr_downsampled[ch].rows = ImageHeight \div cbcr_downsize_rate
                    /\ YCbCr_downsampled[ch].cols = ImageWidth \div cbcr_downsize_rate
              /\ cbcr_downsize_rate = 1 =>
                    /\ YCbCr_downsampled[ch].rows = ImageHeight
                    /\ YCbCr_downsampled[ch].cols = ImageWidth

\* C2 as amended: with sample_factor > 1 the Cb and Cr planes have
\* ceil(height / sample_factor) rows and ceil(width / sample_factor) columns
\* (one sample for every started stretch of sample_factor samples); Y keeps
\* the image's dimensions; with sample_factor = 1 Cb and Cr have the
\* dimensions of Y.
C2_CeilDims ==
    Sampled =>
        /\ YCbCr_downsampled[1].rows = ImageHeight
        /\ YCbCr_downsampled[1].cols = ImageWidth
        /\ \A ch \in 2..3 :
              /\ cbcr_downsize_rate > 1 =>
                    /\ YCbCr_downsampled[ch].rows = CeilDiv(ImageHeight, cbcr_downsize_rate)
                    /\ YCbCr_downsampled[ch].cols = CeilDiv(ImageWidth, cbcr_downsize_rate)
                    /\ \A i \in 1..YCbCr_downsampled[ch].rows :
                          Len(YCbCr_downsampled[ch].at[i]) = YCbCr_downsampled[ch].cols
                    /\ Len(YCbCr_downsampled[ch].at) = YCbCr_downsampled[ch].rows
              /\ cbcr_downsize_rate = 1 =>
                    /\ YCbCr_downsampled[ch].rows = ImageHeight
                    /\ YCbCr_downsampled[ch].cols = ImageWidth

C2_Witness ==
    /\ Sampled
    /\ cbcr_downsize_rate > 1
    /\ ImageHeight % cbcr_downsize_rate # 0
    /\ ImageWidth % cbcr_downsize_rate # 0
    /\ YCbCr_downsampled[2].rows * cbcr_downsize_rate > ImageHeight

\* C6: for every pixel with components in 0..255 the stored Y, Cb and Cr are
\* in 0..255 and are the formulas' results truncated to integers: no formula
\* result is outside the 8 bit range before it is stored.
C6_NoWrap ==
    pc = "converted" =>
        \A i \in 1..Height(input_file) : \A j \in 1..Width(input_file) :
            LET p == input_file[i][j]
                q == original_img[i][j]
            IN  /\ \A c \in 1..3 : q[c] \in 0..255
                /\ \E low \in BOOLEAN : q[1] = TruncDiv(YFormula(p, low), 1000)
                /\ q[2] = TruncDiv(CbFormula(p), 1000000)
                /\ q[3] = TruncDiv(CrFormula(p), 1000000)
                /\ \A low \in BOOLEAN :
                      YFormula(p, low) >= 0 /\ YFormula(p, low) < 256000
                /\ CbFormula(p) >= 0 /\ CbFormula(p) < 256000000
                /\ CrFormula(p) >= 0 /\ CrFormula(p) < 256000000

C6_Witness ==
    /\ pc = "converted"
    /\ input_file[1][1] = <<0, 0, 255>>
    /\ original_img[1][1][2] = 255

\* C9: every luma block is quantised with Qlum and QL_rate only, every Cb
\* and Cr block with Qchrom and QC_rate only: with the governing rate > 0 a
\* coefficient is the DCT coefficient divided by (table entry * rate) and
\* truncated toward zero; with the governing rate 0 it is the DCT
\* coefficient itself.
C9_Quantised ==
    pc = "quantised" =>
        \A ch \in 1..3 :
            LET g == quantised_dct_img[ch]
                rate == IF ch = 1 THEN QL_rate ELSE QC_rate
                table == IF ch = 1 THEN Qlum ELSE Qchrom
            IN  \A i \in 1..g.block_height : \A j \in 1..g.block_width :
                    LET d == Dct(BlockAt(YCbCr_downsampled[ch], i, j))
                    IN  \A u \in 1..8 : \A v \in 1..8 :
                            /\ rate > 0 =>
                                  g.block[i][j][u][v] =
                                     TruncDiv(d[u][v], table[u][v] * rate * Unit) * Unit
                            /\ rate = 0 => g.block[i][j][u][v] = d[u][v]

C9_Witness ==
    /\ pc = "quantised"
    /\ QL_rate > 0
    /\ QC_rate = 0
    /\ quantised_dct_img[1].block_height > 0
    /\ quantised_dct_img[2].block_height > 0
    /\ \E u \in 1..8 : \E v \in 1..8 :
          /\ u + v > 2
          /\ quantised_dct_img[1].block[1][1][u][v] < 0
    /\ \E u \in 1..8 : \E v \in 1..8 :
          quantised_dct_img[2].block[1][1][u][v] % Unit # 0

(***************************************************************************)
(* The end-to-end scenario and the error contract.                         *)
(***************************************************************************)
GrayScenario ==
    /\ Returned
    /\ input_file = Image(<<16, 16>>, "gray")
    /\ cbcr_downsize_rate = 2
    /\ QL_rate = 1
    /\ QC_rate = 1

\* The integer value of coefficient (u, v) of block (i, j) of channel ch.
Coefficient(ch, i, j, u, v) == TruncDiv(quantised_dct_img[ch].block[i][j][u][v], Unit)

BlockCount(ch) == quantised_dct_img[ch].block_height * quantised_dct_img[ch].block_width

\* C5 as stated: for the 16 x 16 solid-gray image (R = G = B = 128) with
\* sample_factor 2 and both rates 1, Y has 4 blocks whose DC coefficients are
\* non-zero and whose AC coefficients are zero, and Cb and Cr have one block.
C5_GrayDcNonZero ==
    GrayScenario =>
        /\ BlockCount(1) = 4
        /\ \A i \in 1..2 : \A j \in 1..2 :
              /\ Coefficient(1, i, j, 1, 1) # 0
              /\ \A u \in 1..8 : \A v \in 1..8 :
                    u + v > 2 => Coefficient(1, i, j, u, v) = 0
        /\ BlockCount(2) = 1
        /\ BlockCount(3) = 1

\* C5 as amended: for that image and those parameters Y has 4 blocks (a 2 x 2
\* grid) all of whose coefficients, the DC coefficient included, are zero, and
\* Cb and Cr have one block each; the Y channel is encoded as the single run
\* (256, 0) followed by 2, 2, 1, 1.
C5_GrayAllZero ==
    GrayScenario =>
        /\ BlockCount(1) = 4
        /\ quantised_dct_img[1].block_height = 2
        /\ \A i \in 1..2 : \A j \in 1..2 : \A u \in 1..8 : \A v \in 1..8 :
              Coefficient(1, i, j, u, v) = 0
        /\ BlockCount(2) = 1
        /\ BlockCount(3) = 1
        /\ encoded_img[1] = <<<<256, 0>>, <<2>>, <<2>>, <<1>>, <<1>>>>

C5_Witness ==
    /\ GrayScenario
    /\ pc = "done"
    /\ original_img[1][1][1] = 127
    /\ YCbCr_downsampled[2].rows = 8

ContractViolation == cbcr_downsize_rate <= 0 \/ QL_rate < 0 \/ QC_rate < 0

\* C3: when sample_factor <= 0 or a rate is negative, compress fails with an
\* InputError before any stage processes the image: no colour transform,
\* subsampling, transform or quantisation runs and no artifact is written.
C3_Rejected ==
    (ContractViolation /\ input_file # <<>>) =>
        /\ pc \in {"start", "loaded", "failed"}
        /\ raised \in {"none", "InputError"}
        /\ YCbCr_downsampled = <<>>
        /\ quantised_dct_img = <<>>
        /\ artifact = "absent"

\* A plane of the image has fewer than 8 rows or columns, so that cropping
\* leaves it no block.
Degenerate ==
    /\ YCbCr_downsampled # <<>>
    /\ \E ch \in 1..3 :
          YCbCr_downsampled[ch].rows < 8 \/ YCbCr_downsampled[ch].cols < 8

\* C4: when a plane is too small to yield any 8 x 8 block (the parameters of
\* the call being valid), compress fails: it returns no encoded structure and
\* writes no artifact with a channel of zero blocks.
C4_DegenerateRejected ==
    (Degenerate /\ ~ContractViolation) =>
        /\ pc \notin {"encoded", "done"}
        /\ encoded_img = <<>>
        /\ artifact # "complete"

\* C7: when compress has ended, by returning or by raising (the parameters
\* of the call being valid and every plane holding a block), the output path
\* holds no new artifact or the complete encoded image, never an empty or
\* truncated file, and the output file handle is closed.
C7_AllOrNothing ==
    (pc \in {"done", "failed"} /\ ~ContractViolation /\ ~Degenerate) =>
        /\ artifact \in {"absent", "complete"}
        /\ handle # "open"
====
